---- MODULE Spec2Model ----
(***************************************************************************)
(* A model of src/src/econ_analysis.py: the wage-data simulator            *)
(* (simulate_wage_data), the model comparison table                        *)
(* (robust_regression_summary) and the EconAnalyzer class.                 *)
(*                                                                         *)
(* Each def of the source is one operator, applied by one action.  The     *)
(* three parts of the source share no state, so each has its own           *)
(* specification: SpecSummary, SpecSim and SpecAnalyzer.                   *)
(***************************************************************************)
EXTENDS Integers, Sequences, FiniteSets, TLC

VARIABLES
    summary,    \* the last robust_regression_summary call: its arguments and outcome
    rng,        \* the state of numpy's global random generator
    sim,        \* the last simulate_wage_data call: its arguments and outcome
    kept,       \* an earlier seeded simulate_wage_data call, remembered for comparison
    frames,     \* the DataFrame objects in memory, by identity
    loaded,     \* each DataFrame as it was when it was created
    analyzers,  \* the EconAnalyzer instances: each one's attribute dictionary
    call        \* the last EconAnalyzer operation: its arguments, outcome and the state before it

simVars == <<rng, sim, kept>>
analyzerVars == <<frames, loaded, analyzers, call>>
vars == <<summary, rng, sim, kept, frames, loaded, analyzers, call>>

\* Python's None as a seed (line 127): no integer the generator accepts as a
\* seed is negative, so -1 stands for it.
None == -1

Min(a, b) == IF a < b THEN a ELSE b
Max(a, b) == IF a > b THEN a ELSE b

(***************************************************************************)
(* robust_regression_summary (lines 168-198)                               *)
(***************************************************************************)

\* Bound: the longest list of models or of names a call is given.
MaxLen == 3

\* Fitted results as the solver hands them out: the seven statistics the
\* table reads (lines 189-195).  Two distinct results are enough to tell
\* which model a row was read from.
FittedPool ==
    { [rsquared |-> 10 * k, rsquared_adj |-> 10 * k - 1, fvalue |-> 5 + k,
       f_pvalue |-> 3 - k, aic |-> 100 + k, bic |-> 110 + k, nobs |-> 50 * k]
      : k \in 1..2 }

NamePool == {"Basic", "With_Squared"}

SeqsUpTo(S, n) == UNION { [1..k -> S] : k \in 0..n }

\* line 182: len(models) != len(model_names)
LengthsDifferOneWay(models, model_names) == Len(models) > Len(model_names)
LengthsDiffer(models, model_names) == Len(models) # Len(model_names)

\* lines 188-196: the row a model contributes
SummaryRow(model) ==
    [R_squared |-> model.rsquared, Adj_R_squared |-> model.rsquared_adj,
     F_statistic |-> model.fvalue, F_p_value |-> model.f_pvalue,
     AIC |-> model.aic, BIC |-> model.bic, N_observations |-> model.nobs]

\* A Python dict: a sequence of [key, value] entries in insertion order.
DictKeys(d) == { d[i].key : i \in 1..Len(d) }

\* d[key] = value on a dict: a present key keeps its position and takes the
\* new value, an absent key is appended (line 188, summary_data[name] = ...).
DictSetKeepFirst(d, key, value) ==
    IF key \in DictKeys(d) THEN d
    ELSE Append(d, [key |-> key, value |-> value])
DictSet(d, key, value) ==
    IF key \in DictKeys(d)
    THEN [i \in 1..Len(d) |->
            IF d[i].key = key THEN [key |-> key, value |-> value] ELSE d[i]]
    ELSE Append(d, [key |-> key, value |-> value])

\* lines 185-196: the loop over zip(models, model_names, strict=False),
\* which stops at the shorter of the two.
RECURSIVE SummaryData(_, _, _)
SummaryData(models, model_names, k) ==
    IF k = 0 THEN <<>>
    ELSE DictSet(SummaryData(models, model_names, k - 1),
                 model_names[k], SummaryRow(models[k]))

\* line 198: pd.DataFrame(summary_data).T has one row per key of the dict,
\* in the dict's order, labelled by the key.
DataFrameT(d) == [i \in 1..Len(d) |-> [label |-> d[i].key, stats |-> d[i].value]]

robust_regression_summary(models, model_names) ==
    IF LengthsDiffer(models, model_names)
    THEN [kind |-> "ValueError", rows |-> <<>>]
    ELSE [kind |-> "DataFrame",
          rows |-> DataFrameT(SummaryData(models, model_names,
                                          Min(Len(models), Len(model_names))))]

NoCall == [called |-> FALSE]

CallSummary ==
    \E models \in SeqsUpTo(FittedPool, MaxLen), model_names \in SeqsUpTo(NamePool, MaxLen) :
        /\ summary' = [called |-> TRUE, models |-> models, names |-> model_names,
                       out |-> robust_regression_summary(models, model_names)]
        /\ UNCHANGED <<simVars, analyzerVars>>

(***************************************************************************)
(* simulate_wage_data (lines 125-165)                                      *)
(*                                                                         *)
(* numpy's global generator is a deterministic stream: its state fixes     *)
(* every later draw, np.random.seed(seed) sets the whole state from the    *)
(* seed, and each value drawn advances the state by one position.          *)
(* education, experience and age are whole years here; log_wage is kept in *)
(* thousandths, so that 0.1, 0.05, 0.001 and 0.3 are the integers 100, 50, *)
(* 1 and 300.                                                              *)
(***************************************************************************)

\* Bounds: the largest n_obs and seed a call is given, the length of the
\* generator's cycle, the largest standard-normal draw (in standard
\* deviations) and the number of values a uniform draw distinguishes.
MaxObs == 2
MaxSeed == 2
RngPeriod == 7
ZMax == 4
UnitSteps == 40

\* exp() of a double is 0.0 below about -745.134 and positive from there on
\* (line 157); in thousandths.
ExpUnderflow == -745134

Seeds == {None} \cup (0..MaxSeed)
RngStates == 0..(RngPeriod - 1)

\* line 139: if seed is not None
SeedTruthy(seed) == seed # None /\ seed # 0
SeedGiven(seed) == seed # None

\* line 140: np.random.seed(seed) replaces the generator's state
SeedState(seed) == (2 * seed + 1) % RngPeriod

\* the generator's next standard-normal and next unit-interval value
StdNormal(s) == ((2 * (s % RngPeriod)) % (2 * ZMax + 1)) - ZMax
UnitDraw(s) == (13 * (s % RngPeriod)) % UnitSteps

\* np.random.normal(loc, scale, size) and np.random.uniform(low, high, size)
\* drawn from state s on (lines 143, 146, 147, 155)
Normal(loc, scale, s, size) == [i \in 1..size |-> loc + scale * StdNormal(s + i - 1)]
Uniform(low, high, s, size) ==
    [i \in 1..size |-> low + ((high - low) * UnitDraw(s + i - 1)) \div UnitSteps]

\* np.clip(a, a_min, a_max), elementwise (lines 144, 148)
ClipLowOnly(a, a_min, a_max) == [i \in 1..Len(a) |-> Max(a[i], a_min)]
Clip(a, a_min, a_max) == [i \in 1..Len(a) |-> Min(Max(a[i], a_min), a_max)]

\* np.exp (line 157): zero once the double underflows, positive and
\* increasing above
Exp(x) == IF x < ExpUnderflow THEN 0 ELSE x - ExpUnderflow + 1

\* line 143: a negative size is refused by the generator
NonPositiveSize(n_obs) == n_obs <= 0
NegativeSize(n_obs) == n_obs < 0

SimColumns == <<"wage", "log_wage", "education", "experience", "age">>

\* The call's outcome and the generator's state after it.
simulate_wage_data(n_obs, seed, rng0) ==
    LET s0 == IF SeedGiven(seed) THEN SeedState(seed) ELSE rng0
    IN  IF NegativeSize(n_obs)
        THEN [out |-> [kind |-> "ValueError"], rng |-> s0]
        ELSE
        LET education == Clip(Normal(12, 3, s0, n_obs), 6, 20)
            experience == Uniform(0, 40, s0 + n_obs, n_obs)
            noise_age == Normal(6, 2, s0 + 2 * n_obs, n_obs)
            age == Clip([i \in 1..n_obs |-> education[i] + experience[i] + noise_age[i]],
                        18, 70)
            noise_wage == Normal(0, 300, s0 + 3 * n_obs, n_obs)
            log_wage == [i \in 1..n_obs |->
                            2500 + 100 * education[i] + 50 * experience[i]
                            - experience[i] * experience[i] + noise_wage[i]]
            wage == [i \in 1..n_obs |-> Exp(log_wage[i])]
        IN  [out |-> [kind |-> "DataFrame",
                      columns |-> SimColumns,
                      col |-> [c \in {"wage", "log_wage", "education", "experience", "age"} |->
                                 CASE c = "wage" -> wage
                                   [] c = "log_wage" -> log_wage
                                   [] c = "education" -> education
                                   [] c = "experience" -> experience
                                   [] OTHER -> age]],
             rng |-> (s0 + 4 * n_obs) % RngPeriod]

\* A call of simulate_wage_data; the previous call may be remembered.
CallSimulate ==
    \E n_obs \in (-1)..MaxObs, seed \in Seeds :
        \E r \in {simulate_wage_data(n_obs, seed, rng)} :
            /\ sim' = [called |-> TRUE, n_obs |-> n_obs, seed |-> seed, out |-> r.out]
            /\ rng' = r.rng
            /\ \/ kept' = kept
               \/ sim.called /\ kept' = sim
            /\ UNCHANGED <<summary, analyzerVars>>

\* Any other user of np.random draws from, or reseeds, the global generator.
OtherConsumer ==
    /\ \E s \in RngStates : rng' = s
    /\ UNCHANGED <<summary, sim, kept, analyzerVars>>


(***************************************************************************)
(* EconAnalyzer (lines 11-122)                                             *)
(*                                                                         *)
(* A DataFrame is its column names in order and the values of each column; *)
(* a value is <<v>> for the number v and <<>> for a missing value (NaN).   *)
(* An instance is its attribute dictionary.  DataFrames are shared by      *)
(* reference: an analyzer holds the identity of its DataFrame.             *)
(*                                                                         *)
(* The class statement itself raises NameError at line 22 (ClassBody), so  *)
(* the module as it stands cannot be imported.  The operators below are    *)
(* the bodies of the defs as written, applied to an instance as __init__   *)
(* (lines 14-21) leaves it: with the attribute data and no other.          *)
(* calculate_returns_to_education (lines 63-90) reads its arguments only   *)
(* and touches neither the DataFrame nor the instance; it has no action.   *)
(***************************************************************************)

\* Bounds: the DataFrames and analyzers created, and the rows of a DataFrame.
MaxFrames == 1
MaxAnalyzers == 2
NRows == 2

NaN == <<>>
Num(v) == <<v>>
Rows == 1..NRows

Range(q) == { q[i] : i \in 1..Len(q) }
HasColumn(df, name) == name \in Range(df.columns)

\* The DataFrames a caller builds an analyzer over.  The first is a plain
\* wage dataset; the second already holds a column named experience_squared
\* that is not the square of experience; the third has a missing log_wage;
\* the fourth has no education column.
PlainFrame ==
    [columns |-> <<"log_wage", "education", "experience">>,
     col |-> [c \in {"log_wage", "education", "experience"} |->
                [i \in Rows |-> CASE c = "log_wage" -> Num(i + 2)
                                  [] c = "education" -> Num(i + 9)
                                  [] OTHER -> Num(i)]]]
InitialFrames ==
    { PlainFrame,
      [columns |-> <<"log_wage", "education", "experience", "experience_squared">>,
       col |-> [c \in {"log_wage", "education", "experience", "experience_squared"} |->
                  IF c = "experience_squared" THEN [i \in Rows |-> Num(7)]
                  ELSE PlainFrame.col[c]]],
      [PlainFrame EXCEPT !.col["log_wage"][1] = NaN],
      [columns |-> <<"log_wage", "experience">>,
       col |-> [c \in {"log_wage", "experience"} |-> PlainFrame.col[c]]] }

\* The arguments the callers pass.
DependentVars == {"log_wage", "wage"}
EducationVars == {"education"}
ExperienceVars == {"experience", "experience_squared"}

\* lines 3-8: the names the module has bound when the class statement runs,
\* and lines 12-21: the names the class body has bound when it reaches
\* line 22.  No builtin is called self.
ModuleGlobals == {"Optional", "Any", "np", "pd", "sm", "stats"}
ClassLocals == {"__doc__", "__init__"}

\* line 22: self.models: dict[str, Any] = {} stands in the class body, not
\* in __init__.  The class body assigns to an attribute of the name self,
\* which it looks up in its own names and then in the module's.
ClassBody ==
    IF "self" \in ClassLocals \cup ModuleGlobals THEN "defined" ELSE "NameError"

\* lines 14-21: __init__ sets data, and nothing else.
EconAnalyzer__init__(data) == [data |-> data]

HasAttr(self, name) == name \in DOMAIN self

\* line 47: f"{experience_var}_squared"
SquaredNameSelf(experience_var) == experience_var
SquaredName(experience_var) == experience_var \o "_squared"

\* ** 2 on a column: NaN stays NaN
Square(values) ==
    [i \in 1..Len(values) |-> IF values[i] = NaN THEN NaN ELSE Num(values[i][1] * values[i][1])]

\* line 48: df[name] = values replaces a column of that name in place and
\* adds one at the end otherwise.
SetColumnAppend(df, name, values) ==
    [columns |-> Append(df.columns, name),
     col |-> [c \in Range(df.columns) \cup {name} |-> IF c = name THEN values ELSE df.col[c]]]
SetColumn(df, name, values) ==
    [columns |-> IF HasColumn(df, name) THEN df.columns ELSE Append(df.columns, name),
     col |-> [c \in Range(df.columns) \cup {name} |-> IF c = name THEN values ELSE df.col[c]]]

\* line 52: self.data[X_vars], the named columns in the order asked for
Select(df, X_vars) ==
    [i \in 1..Len(X_vars) |-> [name |-> X_vars[i], values |-> df.col[X_vars[i]]]]

\* line 52: sm.add_constant(X) puts a column of ones named const in front,
\* unless a column of X is already a non-zero constant (has_constant="skip").
IsConstant(values) ==
    /\ Len(values) > 0
    /\ \A i \in 1..Len(values) : values[i] # NaN /\ values[i] = values[1]
    /\ values[1] # Num(0)
add_constant(X) ==
    IF \E i \in 1..Len(X) : IsConstant(X[i].values) THEN X
    ELSE <<[name |-> "const", values |-> [i \in Rows |-> Num(1)]]>> \o X

\* line 55: sm.OLS(y, X).fit() refuses missing values; otherwise the result
\* has one coefficient per column of X and counts the rows.
HasNaN(values) == \E i \in 1..Len(values) : values[i] = NaN
OLSRefuses(y, X) == HasNaN(y) \/ \E i \in 1..Len(X) : HasNaN(X[i].values)
OLSFit(dependent_var, y, X) ==
    [endog |-> dependent_var, params |-> [i \in 1..Len(X) |-> X[i].name], nobs |-> Len(y)]

\* line 58: f"mincer_{dependent_var}"
ModelName(dependent_var) == "mincer_" \o dependent_var

Raise(kind, heap, objs) == [outcome |-> [kind |-> kind], frames |-> heap, analyzers |-> objs]

\* lines 24-61: the outcome of the call and the DataFrames and analyzers
\* after it.  An exception leaves what the earlier lines did.
mincer_regression(heap, objs, a, dependent_var, education_var, experience_var, add_experience_squared) ==
    LET self == objs[a]
        df0 == heap[self.data]
        exp_sq_name == SquaredName(experience_var)
    IN  IF add_experience_squared /\ ~HasColumn(df0, experience_var)
        THEN Raise("KeyError", heap, objs)                                  \* line 48
        ELSE
        LET df1 == IF add_experience_squared
                   THEN SetColumn(df0, exp_sq_name, Square(df0.col[experience_var]))
                   ELSE df0
            heap1 == [heap EXCEPT ![self.data] = df1]
            X_vars == IF add_experience_squared
                      THEN <<education_var, experience_var, exp_sq_name>>
                      ELSE <<education_var, experience_var>>
        IN  IF \E i \in 1..Len(X_vars) : ~HasColumn(df1, X_vars[i])
            THEN Raise("KeyError", heap1, objs)                             \* line 52
            ELSE IF ~HasColumn(df1, dependent_var)
            THEN Raise("KeyError", heap1, objs)                             \* line 53
            ELSE
            LET X == add_constant(Select(df1, X_vars))
                y == df1.col[dependent_var]
            IN  IF OLSRefuses(y, X)
                THEN Raise("MissingDataError", heap1, objs)                 \* line 55
                ELSE IF ~HasAttr(self, "models")
                THEN Raise("AttributeError", heap1, objs)                   \* line 59
                ELSE
                LET model == OLSFit(dependent_var, y, X)
                IN  [outcome |-> [kind |-> "return", value |-> model],
                     frames |-> heap1,
                     analyzers |-> [objs EXCEPT ![a].models =
                                      DictSet(self.models, ModelName(dependent_var), model)]]

\* lines 92-122: one row per variable, in the order given or, when variables
\* is None, in the DataFrame's column order (every column here is numeric);
\* each row counts the values present and the values missing (the moments
\* are not modelled).  Nothing is assigned.
descriptive_stats(heap, objs, a, variables_is_None, variables) ==
    LET df == heap[objs[a].data]
        vs == IF variables_is_None THEN df.columns ELSE variables
    IN  IF \E i \in 1..Len(vs) : ~HasColumn(df, vs[i])
        THEN [kind |-> "KeyError"]
        ELSE [kind |-> "return",
              value |-> [i \in 1..Len(vs) |->
                  [variable |-> vs[i],
                   count |-> Cardinality({ r \in 1..Len(df.col[vs[i]]) : df.col[vs[i]][r] # NaN }),
                   missing |-> Cardinality({ r \in 1..Len(df.col[vs[i]]) : df.col[vs[i]][r] = NaN })]]]

\* The caller creates a DataFrame.
CreateFrame ==
    /\ Len(frames) < MaxFrames
    /\ \E df \in InitialFrames :
          /\ frames' = Append(frames, df)
          /\ loaded' = Append(loaded, df)
    /\ call' = [op |-> "DataFrame"]
    /\ UNCHANGED <<summary, simVars, analyzers>>

\* EconAnalyzer(data): an instance as __init__ leaves it.
Construct ==
    /\ Len(analyzers) < MaxAnalyzers
    /\ \E data \in 1..Len(frames) :
          analyzers' = Append(analyzers, EconAnalyzer__init__(data))
    /\ call' = [op |-> "EconAnalyzer", a |-> Len(analyzers) + 1]
    /\ UNCHANGED <<summary, simVars, frames, loaded>>

MincerRegression ==
    \E a \in 1..Len(analyzers), dependent_var \in DependentVars,
       education_var \in EducationVars, experience_var \in ExperienceVars,
       add_experience_squared \in BOOLEAN :
        \E r \in {mincer_regression(frames, analyzers, a, dependent_var, education_var,
                                    experience_var, add_experience_squared)} :
            /\ frames' = r.frames
            /\ analyzers' = r.analyzers
            /\ call' = [op |-> "mincer_regression", a |-> a,
                        dependent_var |-> dependent_var, education_var |-> education_var,
                        experience_var |-> experience_var,
                        add_experience_squared |-> add_experience_squared,
                        outcome |-> r.outcome,
                        frames |-> frames, analyzers |-> analyzers]
            /\ UNCHANGED <<summary, simVars, loaded>>

DescriptiveStats ==
    \E a \in 1..Len(analyzers),
       arg \in {[is_None |-> TRUE, variables |-> <<>>],
                [is_None |-> FALSE, variables |-> <<"experience", "log_wage">>],
                [is_None |-> FALSE, variables |-> <<"wage">>]} :
        /\ call' = [op |-> "descriptive_stats", a |-> a, arg |-> arg,
                    outcome |-> descriptive_stats(frames, analyzers, a,
                                                  arg.is_None, arg.variables)]
        /\ UNCHANGED <<summary, simVars, frames, loaded, analyzers>>

(***************************************************************************)
(* The specifications                                                      *)
(***************************************************************************)

\* No call has been made, no DataFrame and no analyzer exists; the generator
\* starts in any state (SpecSim), as numpy seeds it from the system.
InitSummary ==
    /\ summary = NoCall
    /\ rng = 0 /\ sim = NoCall /\ kept = NoCall
    /\ frames = <<>> /\ loaded = <<>> /\ analyzers = <<>> /\ call = [op |-> "none"]
NextSummary == CallSummary
SpecSummary == InitSummary /\ [][NextSummary]_vars

InitSim ==
    /\ rng \in RngStates
    /\ sim = NoCall /\ kept = NoCall
    /\ summary = NoCall
    /\ frames = <<>> /\ loaded = <<>> /\ analyzers = <<>> /\ call = [op |-> "none"]
NextSim == CallSimulate \/ OtherConsumer
SpecSim == InitSim /\ [][NextSim]_vars

InitAnalyzer ==
    /\ frames = <<>> /\ loaded = <<>> /\ analyzers = <<>> /\ call = [op |-> "none"]
    /\ summary = NoCall
    /\ rng = 0 /\ sim = NoCall /\ kept = NoCall
NextAnalyzer == CreateFrame \/ Construct \/ MincerRegression \/ DescriptiveStats
SpecAnalyzer == InitAnalyzer /\ [][NextAnalyzer]_vars

(***************************************************************************)
(* Properties of robust_regression_summary, under SpecSummary              *)
(***************************************************************************)

\* The positions at which a name occurs for the first time, and the last
\* position at which a name occurs.
FirstOccurrences(names) ==
    { i \in 1..Len(names) : \A j \in 1..(i - 1) : names[j] # names[i] }
LastOccurrence(names, name) ==
    CHOOSE i \in 1..Len(names) :
        /\ names[i] = name
        /\ \A j \in (i + 1)..Len(names) : names[j] # name

\* C2 as stated: equal-length lists of length N give exactly N rows, row i
\* labelled names[i] and carrying the statistics of models[i]; repeated names
\* coexist as distinct rows.
C2_OneRowPerPair ==
    (summary.called /\ Len(summary.models) = Len(summary.names)) =>
        /\ summary.out.kind = "DataFrame"
        /\ Len(summary.out.rows) = Len(summary.names)
        /\ \A i \in 1..Len(summary.names) :
              /\ summary.out.rows[i].label = summary.names[i]
              /\ summary.out.rows[i].stats.R_squared = summary.models[i].rsquared
              /\ summary.out.rows[i].stats.N_observations = summary.models[i].nobs

\* C2 amended: equal-length lists give one row per distinct name, in the
\* order in which the names first occur, each row carrying the seven
\* statistics of the last model given under its name; hence N rows, row i
\* for names[i] and models[i], exactly when the names are pairwise distinct.
C2_OneRowPerDistinctName ==
    (summary.called /\ Len(summary.models) = Len(summary.names)) =>
        LET names == summary.names
            rows == summary.out.rows
            firsts == FirstOccurrences(names)
        IN  /\ summary.out.kind = "DataFrame"
            /\ Len(rows) = Cardinality(firsts)
            /\ \A i \in firsts :
                  LET k == Cardinality({ j \in firsts : j <= i })
                      m == summary.models[LastOccurrence(names, names[i])]
                  IN  /\ rows[k].label = names[i]
                      /\ rows[k].stats.R_squared = m.rsquared
                      /\ rows[k].stats.Adj_R_squared = m.rsquared_adj
                      /\ rows[k].stats.F_statistic = m.fvalue
                      /\ rows[k].stats.F_p_value = m.f_pvalue
                      /\ rows[k].stats.AIC = m.aic
                      /\ rows[k].stats.BIC = m.bic
                      /\ rows[k].stats.N_observations = m.nobs

\* A call in which a name is given twice, for two different models, and the
\* table has fewer rows than names.
C2_RepeatedNameCall ==
    /\ summary.called
    /\ summary.out.kind = "DataFrame"
    /\ \E i, j \in 1..Len(summary.names) :
          /\ i < j
          /\ summary.names[i] = summary.names[j]
          /\ summary.models[i] # summary.models[j]
    /\ Len(summary.out.rows) < Len(summary.names)

\* C3: the call fails with ValueError, and yields no table, exactly when the
\* two lists differ in length, whichever is the longer; with equal lengths
\* it yields a table.
C3_ValueErrorIffLengthsDiffer ==
    summary.called =>
        /\ summary.out.kind = "ValueError" <=> Len(summary.models) # Len(summary.names)
        /\ summary.out.kind = "ValueError" => summary.out.rows = <<>>
        /\ summary.out.kind # "ValueError" => summary.out.kind = "DataFrame"

\* A call with fewer models than names that was refused.
C3_FewerModelsRefused ==
    /\ summary.called
    /\ 0 < Len(summary.models)
    /\ Len(summary.models) < Len(summary.names)
    /\ summary.out.kind = "ValueError"

(***************************************************************************)
(* Properties of simulate_wage_data, under SpecSim                         *)
(***************************************************************************)

\* C5: two calls with the same n_obs and the same provided seed return the
\* same dataset, whatever drew from or reseeded the generator before or
\* between them.
C5_SeededCallsAgree ==
    (/\ sim.called /\ kept.called
     /\ sim.seed # None
     /\ kept.seed = sim.seed
     /\ kept.n_obs = sim.n_obs) => sim.out = kept.out

\* Two seeded calls with the same arguments that returned rows, the
\* generator having been left in a state other than the one the seed sets.
C5_TwoSeededCalls ==
    /\ sim.called /\ kept.called
    /\ sim.seed # None
    /\ kept.seed = sim.seed
    /\ kept.n_obs = sim.n_obs
    /\ sim.n_obs > 0
    /\ sim.out.kind = "DataFrame"
    /\ rng # SeedState(sim.seed)

\* C6: for a positive n_obs the call returns exactly n_obs rows and exactly
\* the columns wage, log_wage, education, experience, age, with
\* 6 <= education <= 20, 0 <= experience <= 40, 18 <= age <= 70 and wage > 0
\* in every row.
C6_ShapeAndBounds ==
    (sim.called /\ sim.n_obs > 0) =>
        /\ sim.out.kind = "DataFrame"
        /\ sim.out.columns = <<"wage", "log_wage", "education", "experience", "age">>
        /\ DOMAIN sim.out.col = {"wage", "log_wage", "education", "experience", "age"}
        /\ \A c \in DOMAIN sim.out.col : Len(sim.out.col[c]) = sim.n_obs
        /\ \A i \in 1..sim.n_obs :
              /\ 6 <= sim.out.col["education"][i] /\ sim.out.col["education"][i] <= 20
              /\ 0 <= sim.out.col["experience"][i] /\ sim.out.col["experience"][i] <= 40
              /\ 18 <= sim.out.col["age"][i] /\ sim.out.col["age"][i] <= 70
              /\ sim.out.col["wage"][i] > 0

\* A dataset in which a drawn education above 20 and a drawn age below 18
\* were clipped.
C6_ClippedRows ==
    /\ sim.called /\ sim.n_obs > 0
    /\ sim.out.kind = "DataFrame"
    /\ \E i \in 1..sim.n_obs : sim.out.col["education"][i] = 20
    /\ \E i \in 1..sim.n_obs : sim.out.col["age"][i] = 18

\* C7 as stated: a zero or negative n_obs fails with an error, a positive
\* one never does.
C7_NonPositiveFails ==
    sim.called =>
        /\ sim.n_obs <= 0 => sim.out.kind = "ValueError"
        /\ sim.n_obs > 0 => sim.out.kind = "DataFrame"

\* C7 amended: the call fails, with ValueError, exactly when n_obs is
\* negative; for n_obs = 0 it returns a dataset with the five columns and no
\* rows; for a positive n_obs it has no error outcome.
C7_FailsIffNegative ==
    sim.called =>
        /\ sim.out.kind = "ValueError" <=> sim.n_obs < 0
        /\ sim.n_obs >= 0 => sim.out.kind = "DataFrame"
        /\ sim.n_obs = 0 =>
              /\ sim.out.columns = <<"wage", "log_wage", "education", "experience", "age">>
              /\ \A c \in DOMAIN sim.out.col : sim.out.col[c] = <<>>

\* A call with n_obs = 0 that returned a dataset.
C7_ZeroRowsReturned ==
    /\ sim.called
    /\ sim.n_obs = 0
    /\ sim.out.kind = "DataFrame"

(***************************************************************************)
(* Properties of EconAnalyzer, under SpecAnalyzer                          *)
(***************************************************************************)

\* The call named a dependent, an education and an experience column that
\* the DataFrame held, none of them with a missing value: the call the tests
\* make.
WellFormedCall ==
    /\ call.op = "mincer_regression"
    /\ LET df == call.frames[call.analyzers[call.a].data]
       IN  \A v \in {call.dependent_var, call.education_var, call.experience_var} :
              HasColumn(df, v) /\ ~HasNaN(df.col[v])

\* The registry of analyzer a as a set of <<key, value>> pairs.
Registry(objs, a) == { <<objs[a].models[i].key, objs[a].models[i].value>> :
                          i \in 1..Len(objs[a].models) }

\* C1: a mincer_regression call on well-formed arguments succeeds, and
\* afterwards the registry maps "mincer_" + dependent_var to the result the
\* call returned, every other key keeps its value, and the registry is one
\* entry larger if the key was absent and as large as before otherwise.
C1_ResultRegistered ==
    WellFormedCall =>
        /\ call.outcome.kind = "return"
        /\ HasAttr(analyzers[call.a], "models")
        /\ HasAttr(call.analyzers[call.a], "models")
        /\ LET key == "mincer_" \o call.dependent_var
               before == Registry(call.analyzers, call.a)
               after == Registry(analyzers, call.a)
           IN  /\ <<key, call.outcome.value>> \in after
               /\ \A e \in after : e[1] = key => e[2] = call.outcome.value
               /\ { e \in after : e[1] # key } = { e \in before : e[1] # key }
               /\ Cardinality(after) =
                    IF \E e \in before : e[1] = key
                    THEN Cardinality(before) ELSE Cardinality(before) + 1

\* C4: the class is defined, and a newly constructed analyzer has a model
\* registry of its own, which is empty.
C4_NewAnalyzerHasEmptyRegistry ==
    call.op = "EconAnalyzer" =>
        /\ ClassBody = "defined"
        /\ HasAttr(analyzers[call.a], "models")
        /\ analyzers[call.a].models = <<>>

\* C8: a mincer_regression call on well-formed arguments returns a result
\* with exactly 3 coefficients (the constant, education_var, experience_var)
\* without the squared term and exactly 4 (those and the squared column)
\* with it.
C8_CoefficientCount ==
    WellFormedCall =>
        /\ call.outcome.kind = "return"
        /\ call.outcome.value.params =
             IF call.add_experience_squared
             THEN <<"const", call.education_var, call.experience_var,
                    call.experience_var \o "_squared">>
             ELSE <<"const", call.education_var, call.experience_var>>

\* C9: when a mincer_regression call fails, every analyzer, its registry
\* included, is what it was before the call; every other DataFrame is
\* unchanged; and the analyzer's DataFrame is unchanged or differs only by
\* the column "{experience_var}_squared": no other column is added, removed,
\* moved or altered.
C9_FailedCallConfined ==
    (call.op = "mincer_regression" /\ call.outcome.kind # "return") =>
        LET f == call.analyzers[call.a].data
            old == call.frames[f]
            new == frames[f]
            sq == call.experience_var \o "_squared"
        IN  /\ analyzers = call.analyzers
            /\ \A g \in 1..Len(frames) : g # f => frames[g] = call.frames[g]
            /\ \/ new = old
               \/ /\ call.add_experience_squared
                  /\ new.columns \in {old.columns, Append(old.columns, sq)}
                  /\ \A c \in Range(old.columns) \ {sq} : new.col[c] = old.col[c]

\* A call that failed on a dependent variable the DataFrame lacks, after
\* the squared column had been added to the DataFrame.
C9_FailedAfterDeriving ==
    /\ call.op = "mincer_regression"
    /\ call.outcome.kind = "KeyError"
    /\ call.add_experience_squared
    /\ LET f == call.analyzers[call.a].data
       IN  /\ ~HasColumn(frames[f], call.dependent_var)
           /\ ~HasColumn(call.frames[f], call.experience_var \o "_squared")
           /\ HasColumn(frames[f], call.experience_var \o "_squared")

\* C10 as stated, its first part: after any sequence of operations every
\* DataFrame still has every original column with its original values.
C10_OriginalValuesKept ==
    \A f \in 1..Len(frames) :
        \A c \in Range(loaded[f].columns) :
            HasColumn(frames[f], c) /\ frames[f].col[c] = loaded[f].col[c]

\* C10 amended: after any sequence of operations every DataFrame still has
\* every original column, in its original place, and with its original
\* values unless the column is named "{v}_squared" for a column v (a call
\* with experience_var = v overwrites it); a call with
\* add_experience_squared = true that finds its experience column leaves
\* "{experience_var}_squared" equal to the elementwise square of that
\* column; and making the same call again leaves the same DataFrames, the
\* same analyzers (registries included) and the same outcome.
C10_DeriveIdempotent ==
    /\ \A f \in 1..Len(frames) :
          /\ Len(loaded[f].columns) <= Len(frames[f].columns)
          /\ \A i \in 1..Len(loaded[f].columns) :
                LET c == loaded[f].columns[i]
                IN  /\ frames[f].columns[i] = c
                    /\ \/ frames[f].col[c] = loaded[f].col[c]
                       \/ \E v \in Range(frames[f].columns) : c = v \o "_squared"
    /\ (call.op = "mincer_regression" /\ call.add_experience_squared) =>
          LET f == analyzers[call.a].data
              sq == call.experience_var \o "_squared"
              again == mincer_regression(frames, analyzers, call.a, call.dependent_var,
                                         call.education_var, call.experience_var, TRUE)
          IN  /\ HasColumn(call.frames[f], call.experience_var) =>
                    /\ HasColumn(frames[f], sq)
                    /\ frames[f].col[sq] = Square(frames[f].col[call.experience_var])
                    /\ Cardinality({ i \in 1..Len(frames[f].columns) :
                                       frames[f].columns[i] = sq }) = 1
              /\ again.frames = frames
              /\ again.analyzers = analyzers
              /\ again.outcome = call.outcome

\* The same call made twice in a row on a DataFrame whose original
\* experience_squared column was not the square: the second call found the
\* column the first had overwritten, and left it as it was.
C10_DerivedTwice ==
    /\ call.op = "mincer_regression"
    /\ call.add_experience_squared
    /\ call.experience_var = "experience"
    /\ LET f == analyzers[call.a].data
       IN  /\ HasColumn(loaded[f], "experience_squared")
           /\ call.frames[f].col["experience_squared"] # loaded[f].col["experience_squared"]
           /\ frames[f] = call.frames[f]

====
